---- MODULE Spec2Model ----
(***************************************************************************)
(* Budget ledger of the expense tracker: the BudgetProvider store          *)
(* (src/context/BudgetContext.tsx, second definition of BudgetProvider),   *)
(* the palette of constants/theme (src/components/ui/TransactionRow.tsx)   *)
(* and the values derived from the store at each render.                   *)
(*                                                                         *)
(* React state is modelled in two layers.  `state` is the hook state: the  *)
(* result of applying, in order, every updater the handlers have queued    *)
(* with setX(prev => ...).  `rendered` is the value of the hooks at the    *)
(* last render: what the context exposes to readers and what the           *)
(* callbacks created by that render close over.  Updates queued by one     *)
(* handler are batched, so a render takes the hook state as a whole.       *)
(*                                                                         *)
(* Money is kept in cents, dates are day numbers, names and titles are     *)
(* sequences of one-character strings, and a JS number is a record that    *)
(* is either finite or one of NaN, Infinity, -Infinity.                    *)
(***************************************************************************)
EXTENDS Integers, Sequences, FiniteSets

\* ------------------------------------------------------------------------
\* Bounds of the model
\* ------------------------------------------------------------------------

\* number of store calls in one behaviour
MaxOps == 2

\* milliseconds the clock may advance after start-up
MaxTicks == 1

\* largest index handed to getCategoryColor by the palette specification
MaxProbe == 119

\* the most characters of the amount in front of a key pressed in the
\* transaction modal
MaxAmountLen == 2

\* the most openings of AddCategoryModal
MaxOpenings == 2

\* ------------------------------------------------------------------------
\* JS numbers
\* ------------------------------------------------------------------------

Num(v) == [kind |-> "num", v |-> v]

NaN == [kind |-> "NaN", v |-> 0]

PosInfinity == [kind |-> "Infinity", v |-> 1]

NegInfinity == [kind |-> "Infinity", v |-> -1]

\* Number.isFinite
IsFinite(a) == a.kind = "num"

\* a < 0 (false for NaN)
Lt0(a) == a.kind # "NaN" /\ a.v < 0

\* Math.abs
MathAbs(a) ==
  IF a.kind = "num" THEN Num(IF a.v < 0 THEN -a.v ELSE a.v)
  ELSE IF a.kind = "NaN" THEN NaN ELSE PosInfinity

\* a + b
Plus(a, b) ==
  IF a.kind = "NaN" \/ b.kind = "NaN" THEN NaN
  ELSE IF a.kind = "num" /\ b.kind = "num" THEN Num(a.v + b.v)
  ELSE IF a.kind = "num" THEN b
  ELSE IF b.kind = "num" THEN a
  ELSE IF a.v = b.v THEN a ELSE NaN

\* a - b
Minus(a, b) ==
  Plus(a, IF b.kind = "num" THEN Num(-b.v)
          ELSE IF b.kind = "NaN" THEN NaN
          ELSE [kind |-> "Infinity", v |-> -b.v])

\* ------------------------------------------------------------------------
\* Strings as sequences of characters
\* ------------------------------------------------------------------------

UpperChars ==
  <<"A", "B", "C", "D", "E", "F", "G", "H", "I", "J", "K", "L", "M",
    "N", "O", "P", "Q", "R", "S", "T", "U", "V", "W", "X", "Y", "Z">>

LowerChars ==
  <<"a", "b", "c", "d", "e", "f", "g", "h", "i", "j", "k", "l", "m",
    "n", "o", "p", "q", "r", "s", "t", "u", "v", "w", "x", "y", "z">>

LowerChar(c) ==
  IF \E i \in 1..Len(UpperChars) : UpperChars[i] = c
  THEN LowerChars[CHOOSE i \in 1..Len(UpperChars) : UpperChars[i] = c]
  ELSE c

\* String.prototype.toLowerCase
toLowerCase(s) == [i \in 1..Len(s) |-> LowerChar(s[i])]

RECURSIVE trimStart(_)
trimStart(s) ==
  IF s # <<>> /\ Head(s) = " " THEN trimStart(Tail(s)) ELSE s

RECURSIVE trimEnd(_)
trimEnd(s) ==
  IF s # <<>> /\ s[Len(s)] = " " THEN trimEnd(SubSeq(s, 1, Len(s) - 1)) ELSE s

\* String.prototype.trim
trim(s) == trimEnd(trimStart(s))

\* ------------------------------------------------------------------------
\* Sequence helpers (Array.prototype.filter / map / some)
\* ------------------------------------------------------------------------

RECURSIVE SelectIdx(_, _, _)
SelectIdx(s, keep, i) ==
  IF i > Len(s) THEN <<>>
  ELSE (IF i \in keep THEN <<s[i]>> ELSE <<>>) \o SelectIdx(s, keep, i + 1)

\* the subsequence of s at the indices in keep, in the order of s
Filter(s, keep) == SelectIdx(s, keep, 1)

Range(s) == {s[i] : i \in 1..Len(s)}

\* ------------------------------------------------------------------------
\* Color assignment (constants/theme)
\* ------------------------------------------------------------------------

CATEGORY_COLORS ==
  <<"#FF3B30", "#E74C3C", "#C0392B", "#D35400", "#E67E22", "#F39C12",
    "#F1C40F", "#D4AC0D", "#AFB42B", "#8D6E63", "#A1887F", "#CD6155",
    "#2ECC71", "#27AE60", "#16A085", "#1ABC9C", "#009688", "#006266",
    "#2980B9", "#3498DB", "#0984E3", "#1E3799", "#2C3E50", "#607D8B",
    "#6C5CE7", "#8E44AD", "#9B59B6", "#BE2EDD", "#E84393", "#C44569">>

\* variant: a stride that shares a factor with the palette size
StrideEven == 2 * 3

STRIDE == 7

\* position in the palette, 0-based as in the source
colorIndex(index) == (index * STRIDE) % Len(CATEGORY_COLORS)

getCategoryColor(index) == CATEGORY_COLORS[colorIndex(index) + 1]

\* ------------------------------------------------------------------------
\* Seed data
\* ------------------------------------------------------------------------

\* Date.now() when the provider is first rendered
T0 == 100000

\* the calendar day of start-up, as a day number
Today == 20

getDateOffset(daysAgo) == Today - daysAgo

DEFAULT_CATEGORIES ==
  <<
    [name |-> <<"G", "r", "o", "c", "e", "r", "i", "e", "s">>, icon |-> "cart-outline", color |-> getCategoryColor(0)],
    [name |-> <<"H", "e", "a", "l", "t", "h">>, icon |-> "fitness-outline", color |-> getCategoryColor(1)],
    [name |-> <<"T", "r", "a", "n", "s", "p", "o", "r", "t">>, icon |-> "car-outline", color |-> getCategoryColor(2)],
    [name |-> <<"S", "h", "o", "p", "p", "i", "n", "g">>, icon |-> "bag-handle-outline", color |-> getCategoryColor(3)],
    [name |-> <<"C", "o", "f", "f", "e", "e">>, icon |-> "cafe-outline", color |-> getCategoryColor(4)],
    [name |-> <<"E", "n", "t", "e", "r", "t", "a", "i", "n", "m", "e", "n", "t">>, icon |-> "game-controller-outline", color |-> getCategoryColor(5)],
    [name |-> <<"D", "i", "n", "i", "n", "g">>, icon |-> "restaurant-outline", color |-> getCategoryColor(6)],
    [name |-> <<"U", "t", "i", "l", "i", "t", "i", "e", "s">>, icon |-> "flash-outline", color |-> getCategoryColor(7)],
    [name |-> <<"S", "u", "b", "s", "c", "r", "i", "p", "t", "i", "o", "n", "s">>, icon |-> "tv-outline", color |-> getCategoryColor(8)],
    [name |-> <<"E", "d", "u", "c", "a", "t", "i", "o", "n">>, icon |-> "school-outline", color |-> getCategoryColor(9)],
    [name |-> <<"T", "r", "a", "v", "e", "l">>, icon |-> "airplane-outline", color |-> getCategoryColor(10)],
    [name |-> <<"P", "e", "t", "s">>, icon |-> "paw-outline", color |-> getCategoryColor(11)],
    [name |-> <<"G", "i", "f", "t", "s">>, icon |-> "gift-outline", color |-> getCategoryColor(12)],
    [name |-> <<"I", "n", "s", "u", "r", "a", "n", "c", "e">>, icon |-> "shield-checkmark-outline", color |-> getCategoryColor(13)],
    [name |-> <<"H", "o", "m", "e">>, icon |-> "home-outline", color |-> getCategoryColor(14)]
  >>

\* generateUUID() never repeats a value: ids are drawn from a counter.
\* The seeded categories take 1..15, the seeded transactions 16..40.
SEEDED_CATEGORY_IDS == [i \in 1..Len(DEFAULT_CATEGORIES) |-> i]

createSeededCategories ==
  [i \in 1..Len(DEFAULT_CATEGORIES) |->
     [id |-> SEEDED_CATEGORY_IDS[i],
      name |-> DEFAULT_CATEGORIES[i].name,
      icon |-> DEFAULT_CATEGORIES[i].icon,
      color |-> DEFAULT_CATEGORIES[i].color,
      createdAt |-> T0 + (i - 1)]]

testTransactions ==
  <<
    [title |-> <<"W", "h", "o", "l", "e", " ", "F", "o", "o", "d", "s">>, amount |-> Num(-8750), date |-> getDateOffset(0),
     categoryId |-> SEEDED_CATEGORY_IDS[1], note |-> "Weekly groceries"],
    [title |-> <<"S", "t", "a", "r", "b", "u", "c", "k", "s">>, amount |-> Num(-675), date |-> getDateOffset(0),
     categoryId |-> SEEDED_CATEGORY_IDS[5], note |-> ""],
    [title |-> <<"U", "b", "e", "r", " ", "R", "i", "d", "e">>, amount |-> Num(-2400), date |-> getDateOffset(0),
     categoryId |-> SEEDED_CATEGORY_IDS[3], note |-> ""],
    [title |-> <<"N", "e", "t", "f", "l", "i", "x">>, amount |-> Num(-1599), date |-> getDateOffset(0),
     categoryId |-> SEEDED_CATEGORY_IDS[9], note |-> ""],
    [title |-> <<"G", "y", "m", " ", "M", "e", "m", "b", "e", "r", "s", "h", "i", "p">>, amount |-> Num(-4999), date |-> getDateOffset(1),
     categoryId |-> SEEDED_CATEGORY_IDS[2], note |-> ""],
    [title |-> <<"A", "m", "a", "z", "o", "n", " ", "P", "u", "r", "c", "h", "a", "s", "e">>, amount |-> Num(-15600), date |-> getDateOffset(1),
     categoryId |-> SEEDED_CATEGORY_IDS[4], note |-> ""],
    [title |-> <<"C", "h", "i", "p", "o", "t", "l", "e">>, amount |-> Num(-1250), date |-> getDateOffset(1),
     categoryId |-> SEEDED_CATEGORY_IDS[7], note |-> ""],
    [title |-> <<"E", "l", "e", "c", "t", "r", "i", "c", " ", "B", "i", "l", "l">>, amount |-> Num(-12000), date |-> getDateOffset(2),
     categoryId |-> SEEDED_CATEGORY_IDS[8], note |-> ""],
    [title |-> <<"S", "p", "o", "t", "i", "f", "y">>, amount |-> Num(-999), date |-> getDateOffset(2),
     categoryId |-> SEEDED_CATEGORY_IDS[9], note |-> ""],
    [title |-> <<"G", "a", "s", " ", "S", "t", "a", "t", "i", "o", "n">>, amount |-> Num(-4500), date |-> getDateOffset(2),
     categoryId |-> SEEDED_CATEGORY_IDS[3], note |-> ""],
    [title |-> <<"P", "e", "t", " ", "F", "o", "o", "d">>, amount |-> Num(-3800), date |-> getDateOffset(3),
     categoryId |-> SEEDED_CATEGORY_IDS[12], note |-> ""],
    [title |-> <<"M", "o", "v", "i", "e", " ", "T", "i", "c", "k", "e", "t", "s">>, amount |-> Num(-2800), date |-> getDateOffset(3),
     categoryId |-> SEEDED_CATEGORY_IDS[6], note |-> ""],
    [title |-> <<"B", "o", "o", "k", "s">>, amount |-> Num(-4200), date |-> getDateOffset(3),
     categoryId |-> SEEDED_CATEGORY_IDS[10], note |-> ""],
    [title |-> <<"F", "l", "i", "g", "h", "t", " ", "B", "o", "o", "k", "i", "n", "g">>, amount |-> Num(-32000), date |-> getDateOffset(4),
     categoryId |-> SEEDED_CATEGORY_IDS[11], note |-> ""],
    [title |-> <<"B", "i", "r", "t", "h", "d", "a", "y", " ", "G", "i", "f", "t">>, amount |-> Num(-7500), date |-> getDateOffset(4),
     categoryId |-> SEEDED_CATEGORY_IDS[13], note |-> ""],
    [title |-> <<"C", "a", "r", " ", "I", "n", "s", "u", "r", "a", "n", "c", "e">>, amount |-> Num(-18000), date |-> getDateOffset(5),
     categoryId |-> SEEDED_CATEGORY_IDS[14], note |-> ""],
    [title |-> <<"H", "o", "m", "e", " ", "D", "e", "p", "o", "t">>, amount |-> Num(-9500), date |-> getDateOffset(5),
     categoryId |-> SEEDED_CATEGORY_IDS[15], note |-> ""],
    [title |-> <<"T", "r", "a", "d", "e", "r", " ", "J", "o", "e", "s">>, amount |-> Num(-6500), date |-> getDateOffset(5),
     categoryId |-> SEEDED_CATEGORY_IDS[1], note |-> ""],
    [title |-> <<"C", "o", "f", "f", "e", "e", " ", "B", "e", "a", "n", "s">>, amount |-> Num(-2200), date |-> getDateOffset(6),
     categoryId |-> SEEDED_CATEGORY_IDS[5], note |-> ""],
    [title |-> <<"P", "h", "a", "r", "m", "a", "c", "y">>, amount |-> Num(-3500), date |-> getDateOffset(6),
     categoryId |-> SEEDED_CATEGORY_IDS[2], note |-> ""],
    [title |-> <<"P", "i", "z", "z", "a", " ", "D", "e", "l", "i", "v", "e", "r", "y">>, amount |-> Num(-3200), date |-> getDateOffset(6),
     categoryId |-> SEEDED_CATEGORY_IDS[7], note |-> ""],
    [title |-> <<"V", "i", "d", "e", "o", " ", "G", "a", "m", "e", "s">>, amount |-> Num(-5999), date |-> getDateOffset(7),
     categoryId |-> SEEDED_CATEGORY_IDS[6], note |-> ""],
    [title |-> <<"C", "o", "s", "t", "c", "o">>, amount |-> Num(-21000), date |-> getDateOffset(7),
     categoryId |-> SEEDED_CATEGORY_IDS[1], note |-> ""],
    [title |-> <<"V", "e", "t", " ", "V", "i", "s", "i", "t">>, amount |-> Num(-12000), date |-> getDateOffset(7),
     categoryId |-> SEEDED_CATEGORY_IDS[12], note |-> ""],
    [title |-> <<"O", "n", "l", "i", "n", "e", " ", "C", "o", "u", "r", "s", "e">>, amount |-> Num(-19900), date |-> getDateOffset(7),
     categoryId |-> SEEDED_CATEGORY_IDS[10], note |-> ""]
  >>

createTestTransactions ==
  [i \in 1..Len(testTransactions) |->
     [id |-> Len(DEFAULT_CATEGORIES) + i,
      title |-> testTransactions[i].title,
      amount |-> testTransactions[i].amount,
      date |-> testTransactions[i].date,
      categoryId |-> testTransactions[i].categoryId,
      note |-> testTransactions[i].note,
      createdAt |-> T0 - (i - 1) * 1000]]

FirstFreeId == Len(DEFAULT_CATEGORIES) + Len(testTransactions) + 1

\* ------------------------------------------------------------------------
\* Inputs of the store calls
\* ------------------------------------------------------------------------

Food == <<"F", "o", "o", "d">>

groceries == <<"g", "r", "o", "c", "e", "r", "i", "e", "s">>

Lunch == <<"L", "u", "n", "c", "h">>

\* '  ': nothing is left of it once trimmed
Blank == <<" ", " ">>

\* color "" stands for an omitted color: undefined and '' take the same branch
CategoryInputs ==
  {[name |-> Food, icon |-> "cart-outline", color |-> ""],
   [name |-> groceries, icon |-> "leaf-outline", color |-> ""],
   [name |-> Food, icon |-> "cart-outline", color |-> "#123456"],
   [name |-> Blank, icon |-> "cart-outline", color |-> "#123456"]}

\* ------------------------------------------------------------------------
\* State
\* ------------------------------------------------------------------------

VARIABLES
  state,       \* hook state: budget, categories, nextColorIndex, transactions
  rendered,    \* the hook values of the last render (the context value)
  now,         \* Date.now()
  nextId,      \* next value of generateUUID()
  ops,         \* store calls made so far
  lastOp,      \* history: the last store call and its arguments
  pre,         \* history: the hook state before the last store call
  colorLog,    \* history: the indices passed to getCategoryColor by addCategory
  report,      \* what the last store call wrote with console.error, "" if nothing
  tally,       \* history: the store calls counted by what they asked for
  form,        \* AddCategoryModal: its hook state, its ref and its visible prop
  formShown,   \* AddCategoryModal: the values of its last render
  submitted,   \* history: the addCategory calls made by handleAdd
  editor,      \* TransactionModal: its hook state and its props
  editorShown, \* TransactionModal: the values of its last render
  probeIdx,    \* palette specification: an index
  probeColor   \* palette specification: getCategoryColor(probeIdx), once applied

vars ==
  <<state, rendered, now, nextId, ops, lastOp, pre, colorLog, report, tally,
    form, formShown, submitted, editor, editorShown, probeIdx, probeColor>>

storeVars ==
  <<state, rendered, now, nextId, ops, lastOp, pre, colorLog, report, tally>>

probeVars == <<probeIdx, probeColor>>

formVars == <<form, formShown, submitted>>

editorVars == <<editor, editorShown>>

screenVars == <<formVars, editorVars>>

NoPatch == [f \in {} |-> ""]

CategoryUpdates == {NoPatch, [name |-> groceries, color |-> "#123456"]}

\* -2.00 on Shopping makes its spending equal to that of Pets (158.00)
AllTransactionInputs ==
  {[title |-> Lunch, amount |-> Num(-200), date |-> Today,
    categoryId |-> 4, note |-> ""],
   [title |-> Lunch, amount |-> Num(10000), date |-> Today - 1,
    categoryId |-> 4, note |-> ""],
   [title |-> Lunch, amount |-> Num(-5000), date |-> Today,
    categoryId |-> FirstFreeId, note |-> "cash"],
   [title |-> Lunch, amount |-> Num(-200), date |-> Today - 1,
    categoryId |-> 0, note |-> ""],
   [title |-> Lunch, amount |-> NaN, date |-> Today,
    categoryId |-> 4, note |-> ""],
   [title |-> Lunch, amount |-> PosInfinity, date |-> Today,
    categoryId |-> 4, note |-> ""],
   [title |-> Lunch, amount |-> NegInfinity, date |-> Today,
    categoryId |-> 4, note |-> ""],
   [title |-> Blank, amount |-> Num(-200), date |-> Today,
    categoryId |-> 4, note |-> ""]}

AllTransactionUpdates ==
  {NoPatch, [amount |-> NegInfinity],
   [amount |-> Num(10000), categoryId |-> FirstFreeId]}

BudgetInputs == {Num(0), Num(-100)}

\* A caller names an id that generateUUID has handed out, or a value that
\* is no id.  4 is the seeded category Shopping, whose only entry is
\* transaction 21 ("Amazon Purchase", -156.00); FirstFreeId is the first id
\* handed out after start-up; 0 is never handed out.
HandedOut == {FirstFreeId} \cap 1..(nextId - 1)

CategoryIdInputs == {4, 0} \cup HandedOut

TransactionIdInputs == {21, 0} \cup HandedOut

TransactionInputs ==
  {tx \in AllTransactionInputs : tx.categoryId \in CategoryIdInputs}

TransactionUpdates ==
  {u \in AllTransactionUpdates :
     "categoryId" \in DOMAIN u => u.categoryId \in CategoryIdInputs}

\* the values Date.now() may return: the clock does not run backwards
Clock == {t \in now..(now + 1) : t <= T0 + MaxTicks}

\* no store call has been made
NoCalls ==
  [categoryAdds |-> 0, categoryDeletes |-> 0, transactionAdds |-> 0,
   transactionRemovals |-> 0]

DEFAULT_ICON == "cart-outline"

\* AddCategoryModal as mounted by HomeScreen: not visible, nothing typed
ClosedForm ==
  [visible |-> FALSE, name |-> <<>>, selectedIcon |-> DEFAULT_ICON,
   selectedColor |-> "", error |-> "", isSubmitting |-> FALSE,
   initialDefaultColor |-> ""]

\* TransactionModal as mounted by HomeScreen; 0 stands for null
ClosedEditor ==
  [visible |-> FALSE, editTransactionId |-> 0, amountInput |-> <<>>,
   title |-> <<>>, selectedCategoryId |-> 0, note |-> ""]

\* the screens before anything was opened
InitScreens ==
  /\ form = ClosedForm
  /\ formShown = ClosedForm
  /\ submitted = [opening |-> 0, calls |-> <<>>]
  /\ editor = ClosedEditor
  /\ editorShown = ClosedEditor

InitialState ==
  [budget |-> Num(500000),
   categories |-> createSeededCategories,
   nextColorIndex |-> Len(DEFAULT_CATEGORIES),
   transactions |-> createTestTransactions]

Init ==
  /\ state = InitialState
  /\ rendered = InitialState
  /\ now = T0
  /\ nextId = FirstFreeId
  /\ ops = 0
  /\ lastOp = [op |-> "init"]
  /\ pre = InitialState
  /\ colorLog = <<>>
  /\ report = ""
  /\ tally = NoCalls
  /\ InitScreens
  /\ probeIdx = 0
  /\ probeColor = ""

\* { ...entity, ...updates }
Spread(entity, updates) ==
  [f \in DOMAIN entity \cup DOMAIN updates |->
     IF f \in DOMAIN updates THEN updates[f] ELSE entity[f]]

\* The calls so far, counted by what they asked of the hook state they met:
\* adds that were not refused, deleteCategory calls on an id that is there,
\* and the transactions that a deleteCategory call (those of the category)
\* or a deleteTransaction call on an id that is there asked to be removed.
Counted(op, error) ==
  LET categoryIds == {state.categories[i].id : i \in 1..Len(state.categories)}
      transactionIds ==
        {state.transactions[i].id : i \in 1..Len(state.transactions)}
      referring ==
        {i \in 1..Len(state.transactions) :
           state.transactions[i].categoryId = op.id}
  IN CASE op.op = "addCategory" /\ error = "" ->
            [tally EXCEPT !.categoryAdds = @ + 1]
       [] op.op = "addTransaction" /\ error = "" ->
            [tally EXCEPT !.transactionAdds = @ + 1]
       [] op.op = "deleteCategory" ->
            [tally EXCEPT
               !.categoryDeletes = IF op.id \in categoryIds THEN @ + 1 ELSE @,
               !.transactionRemovals = @ + Cardinality(referring)]
       [] op.op = "deleteTransaction" /\ op.id \in transactionIds ->
            [tally EXCEPT !.transactionRemovals = @ + 1]
       [] OTHER -> tally

\* a store call: it is counted, the hook state before it is remembered, and
\* so is what it wrote with console.error
Call(op, error) ==
  /\ ops < MaxOps
  /\ ops' = ops + 1
  /\ lastOp' = op
  /\ pre' = state
  /\ report' = error
  /\ tally' = Counted(op, error)

\* ------------------------------------------------------------------------
\* Category operations
\* ------------------------------------------------------------------------

AddCategory(category, t) ==
  LET auto == category.color = ""
      finalColor ==
        IF auto THEN getCategoryColor(rendered.nextColorIndex)
        ELSE category.color
      newCategory ==
        [id |-> nextId, name |-> category.name, icon |-> category.icon,
         color |-> finalColor, createdAt |-> t]
  IN /\ Call([op |-> "addCategory", category |-> category, id |-> nextId], "")
     /\ state' =
          [state EXCEPT
             !.nextColorIndex = IF auto THEN @ + 1 ELSE @,
             !.categories = Append(@, newCategory)]
     /\ colorLog' =
          IF auto THEN Append(colorLog, rendered.nextColorIndex) ELSE colorLog
     /\ now' = t
     /\ nextId' = nextId + 1
     /\ UNCHANGED <<rendered, probeVars>>

UpdateCategory(id, updates) ==
  /\ Call([op |-> "updateCategory", id |-> id, updates |-> updates], "")
  /\ state' =
       [state EXCEPT
          !.categories =
            [i \in 1..Len(@) |->
               IF @[i].id = id THEN Spread(@[i], updates) ELSE @[i]]]
  /\ UNCHANGED <<rendered, now, nextId, colorLog, probeVars>>

\* variant: the category alone is removed, its transactions stay
DeleteCategoryOnly(id) ==
  /\ Call([op |-> "deleteCategory", id |-> id], "")
  /\ state' =
       [state EXCEPT
          !.categories = Filter(@, {i \in 1..Len(@) : @[i].id # id})]
  /\ UNCHANGED <<rendered, now, nextId, colorLog, probeVars>>

\* variant: the first update is rendered before the second is queued
DeleteCategoryUnbatched(id) ==
  /\ Call([op |-> "deleteCategory", id |-> id], "")
  /\ state' =
       [state EXCEPT
          !.categories = Filter(@, {i \in 1..Len(@) : @[i].id # id}),
          !.transactions =
            Filter(@, {i \in 1..Len(@) : @[i].categoryId # id})]
  /\ rendered' = [state EXCEPT !.categories = state'.categories]
  /\ UNCHANGED <<now, nextId, colorLog, probeVars>>

\* variant: the color index is recomputed from the number of categories
DeleteCategoryRecount(id) ==
  /\ Call([op |-> "deleteCategory", id |-> id], "")
  /\ state' =
       [state EXCEPT
          !.categories = Filter(@, {i \in 1..Len(@) : @[i].id # id}),
          !.transactions =
            Filter(@, {i \in 1..Len(@) : @[i].categoryId # id}),
          !.nextColorIndex =
            Len(Filter(state.categories,
                       {i \in 1..Len(state.categories) :
                          state.categories[i].id # id}))]
  /\ UNCHANGED <<rendered, now, nextId, colorLog, probeVars>>

DeleteCategory(id) ==
  /\ Call([op |-> "deleteCategory", id |-> id], "")
  /\ state' =
       [state EXCEPT
          !.categories = Filter(@, {i \in 1..Len(@) : @[i].id # id}),
          !.transactions =
            Filter(@, {i \in 1..Len(@) : @[i].categoryId # id})]
  /\ UNCHANGED <<rendered, now, nextId, colorLog, probeVars>>

getCategoryById(id) ==
  LET found == {i \in 1..Len(rendered.categories) :
                  rendered.categories[i].id = id}
  IN IF found = {} THEN <<>>
     ELSE <<rendered.categories[CHOOSE i \in found : \A j \in found : i <= j]>>

\* ------------------------------------------------------------------------
\* Transaction operations
\* ------------------------------------------------------------------------

\* variant: the amount is not looked at
AddTransactionUnchecked(transaction, t) ==
  /\ Call([op |-> "addTransaction", transaction |-> transaction,
           id |-> nextId], "")
  /\ state' =
       [state EXCEPT
          !.transactions =
            Append(@, [id |-> nextId,
                       title |-> transaction.title,
                       amount |-> transaction.amount,
                       date |-> transaction.date,
                       categoryId |-> transaction.categoryId,
                       note |-> transaction.note,
                       createdAt |-> t])]
  /\ now' = t
  /\ nextId' = nextId + 1
  /\ UNCHANGED <<rendered, colorLog, probeVars>>

AddTransaction(transaction, t) ==
  /\ Call([op |-> "addTransaction", transaction |-> transaction,
           id |-> nextId],
          IF ~IsFinite(transaction.amount)
          THEN "Invalid transaction amount:" ELSE "")
  /\ IF ~IsFinite(transaction.amount)
     THEN UNCHANGED <<state, now, nextId>>
     ELSE /\ state' =
               [state EXCEPT
                  !.transactions =
                    Append(@, [id |-> nextId,
                               title |-> transaction.title,
                               amount |-> transaction.amount,
                               date |-> transaction.date,
                               categoryId |-> transaction.categoryId,
                               note |-> transaction.note,
                               createdAt |-> t])]
          /\ now' = t
          /\ nextId' = nextId + 1
  /\ UNCHANGED <<rendered, colorLog, probeVars>>

\* variant: the amount of the patch is not looked at
UpdateTransactionUnchecked(id, updates) ==
  /\ Call([op |-> "updateTransaction", id |-> id, updates |-> updates], "")
  /\ state' =
       [state EXCEPT
          !.transactions =
            [i \in 1..Len(@) |->
               IF @[i].id = id THEN Spread(@[i], updates) ELSE @[i]]]
  /\ UNCHANGED <<rendered, now, nextId, colorLog, probeVars>>

\* variant: the patched transaction is taken out and put at the end
UpdateTransactionReordered(id, updates) ==
  /\ Call([op |-> "updateTransaction", id |-> id, updates |-> updates],
          IF "amount" \in DOMAIN updates /\ ~IsFinite(updates.amount)
          THEN "Invalid transaction amount:" ELSE "")
  /\ IF "amount" \in DOMAIN updates /\ ~IsFinite(updates.amount)
     THEN UNCHANGED state
     ELSE state' =
            [state EXCEPT
               !.transactions =
                 LET hit == {i \in 1..Len(@) : @[i].id = id}
                 IN Filter(@, (1..Len(@)) \ hit)
                      \o [k \in 1..Len(Filter(@, hit)) |->
                            Spread(Filter(@, hit)[k], updates)]]
  /\ UNCHANGED <<rendered, now, nextId, colorLog, probeVars>>

UpdateTransaction(id, updates) ==
  /\ Call([op |-> "updateTransaction", id |-> id, updates |-> updates],
          IF "amount" \in DOMAIN updates /\ ~IsFinite(updates.amount)
          THEN "Invalid transaction amount:" ELSE "")
  /\ IF "amount" \in DOMAIN updates /\ ~IsFinite(updates.amount)
     THEN UNCHANGED state
     ELSE state' =
            [state EXCEPT
               !.transactions =
                 [i \in 1..Len(@) |->
                    IF @[i].id = id THEN Spread(@[i], updates) ELSE @[i]]]
  /\ UNCHANGED <<rendered, now, nextId, colorLog, probeVars>>

\* variant: a category left without transactions is removed with the last one
DeleteTransactionPruning(id) ==
  /\ Call([op |-> "deleteTransaction", id |-> id], "")
  /\ state' =
       [state EXCEPT
          !.transactions = Filter(@, {i \in 1..Len(@) : @[i].id # id}),
          !.categories =
            Filter(@, {c \in 1..Len(@) :
                         \E i \in 1..Len(state.transactions) :
                           /\ state.transactions[i].id # id
                           /\ state.transactions[i].categoryId = @[c].id})]
  /\ UNCHANGED <<rendered, now, nextId, colorLog, probeVars>>

DeleteTransaction(id) ==
  /\ Call([op |-> "deleteTransaction", id |-> id], "")
  /\ state' =
       [state EXCEPT
          !.transactions = Filter(@, {i \in 1..Len(@) : @[i].id # id})]
  /\ UNCHANGED <<rendered, now, nextId, colorLog, probeVars>>

\* variant: a negative budget is not taken
SetBudgetNonNegative(b) ==
  /\ Call([op |-> "setBudget", budget |-> b], "")
  /\ state' = IF Lt0(b) THEN state ELSE [state EXCEPT !.budget = b]
  /\ UNCHANGED <<rendered, now, nextId, colorLog, probeVars>>

SetBudget(b) ==
  /\ Call([op |-> "setBudget", budget |-> b], "")
  /\ state' = [state EXCEPT !.budget = b]
  /\ UNCHANGED <<rendered, now, nextId, colorLog, probeVars>>

\* ------------------------------------------------------------------------
\* Rendering
\* ------------------------------------------------------------------------

\* React re-renders the provider with the queued updates applied
Render ==
  /\ rendered # state
  /\ rendered' = state
  /\ UNCHANGED <<state, now, nextId, ops, lastOp, pre, colorLog, report, tally,
               probeVars>>

\* ------------------------------------------------------------------------
\* Computed values of a render
\* ------------------------------------------------------------------------

RECURSIVE Reduce(_, _, _)
\* s.reduce((sum, t) => sum + Math.abs(t.amount), acc), from index i
Reduce(s, acc, i) ==
  IF i > Len(s) THEN acc
  ELSE Reduce(s, Plus(acc, MathAbs(s[i].amount)), i + 1)

\* variant: income is not filtered out
totalSpentUnfiltered(transactions) == Reduce(transactions, Num(0), 1)

totalSpentOf(transactions) ==
  Reduce(Filter(transactions,
                {i \in 1..Len(transactions) : Lt0(transactions[i].amount)}),
         Num(0), 1)

totalSpent == totalSpentOf(rendered.transactions)

\* sign of a number handed back by a sort comparator (NaN counts as 0)
Sign(a) == IF a.kind = "NaN" \/ a.v = 0 THEN 0 ELSE IF a.v < 0 THEN -1 ELSE 1

\* Array.prototype.sort, which is stable.  cmp[i, j] is the comparator's
\* sign for (s[i], s[j]); an element goes behind the elements the comparator
\* puts before it and behind the equal ones that precede it in s
Sort(s, cmp) ==
  LET placed ==
        {<<i, 1 + Cardinality({j \in 1..Len(s) :
                                 \/ cmp[j, i] < 0
                                 \/ cmp[j, i] = 0 /\ j < i})>> :
           i \in 1..Len(s)}
  IN [p \in 1..Len(s) |-> s[(CHOOSE pl \in placed : pl[2] = p)[1]]]

\* A Map is the sequence of its <<key, value>> entries in insertion order.
MapHas(map, key) == \E e \in 1..Len(map) : map[e][1] = key

MapGet(map, key) == map[CHOOSE e \in 1..Len(map) : map[e][1] = key][2]

MapSet(map, key, value) ==
  IF MapHas(map, key)
  THEN LET e == CHOOSE k \in 1..Len(map) : map[k][1] = key
       IN SubSeq(map, 1, e - 1) \o <<<<key, value>>>>
            \o SubSeq(map, e + 1, Len(map))
  ELSE Append(map, <<key, value>>)

RECURSIVE spendingFrom(_, _, _)
\* the Map filled by forEach over the expenses s, from index i
spendingFrom(s, map, i) ==
  IF i > Len(s) THEN map
  ELSE LET id == s[i].categoryId
           current == IF MapHas(map, id) THEN MapGet(map, id) ELSE Num(0)
       IN spendingFrom(s, MapSet(map, id, Plus(current, MathAbs(s[i].amount))),
                       i + 1)

spendingOf(transactions) ==
  spendingFrom(Filter(transactions,
                      {i \in 1..Len(transactions) :
                         Lt0(transactions[i].amount)}),
               <<>>, 1)

RECURSIVE toSpending(_, _, _)
\* kept.map(cat => ({ id, name, icon, color, amount })), from index i
toSpending(kept, spending, i) ==
  IF i > Len(kept) THEN <<>>
  ELSE <<[id |-> kept[i].id, name |-> kept[i].name, icon |-> kept[i].icon,
          color |-> kept[i].color,
          amount |-> IF MapHas(spending, kept[i].id)
                     THEN MapGet(spending, kept[i].id) ELSE Num(0)]>>
       \o toSpending(kept, spending, i + 1)

\* (a, b) => b.amount - a.amount, for every pair of entries of s
byAmountDesc(s) ==
  [i \in 1..Len(s), j \in 1..Len(s) |-> Sign(Minus(s[j].amount, s[i].amount))]

\* variant: categories without spending are kept, with amount 0
categoryBreakdownUnfiltered(transactions, categories) ==
  LET mapped == toSpending(categories, spendingOf(transactions), 1)
  IN Sort(mapped, byAmountDesc(mapped))

categoryBreakdownOf(transactions, categories) ==
  LET spending == spendingOf(transactions)
      kept == Filter(categories,
                     {i \in 1..Len(categories) :
                        MapHas(spending, categories[i].id)})
      mapped == toSpending(kept, spending, 1)
  IN Sort(mapped, byAmountDesc(mapped))

categoryBreakdown ==
  categoryBreakdownOf(rendered.transactions, rendered.categories)

\* (a, b) => b.createdAt - a.createdAt, for every pair of entries of s
byCreatedAtDesc(s) ==
  [i \in 1..Len(s), j \in 1..Len(s) |->
     IF s[j].createdAt > s[i].createdAt THEN 1
     ELSE IF s[j].createdAt < s[i].createdAt THEN -1 ELSE 0]

getTransactionsByDate(date) ==
  LET onDate == Filter(rendered.transactions,
                       {i \in 1..Len(rendered.transactions) :
                          rendered.transactions[i].date = date})
  IN Sort(onDate, byCreatedAtDesc(onDate))

\* variant: the transactions array itself is sorted, then filtered
callGetTransactionsByDateInPlace(date) ==
  LET sorted == Sort(rendered.transactions,
                     byCreatedAtDesc(rendered.transactions))
  IN [returned |-> Filter(sorted, {i \in 1..Len(sorted) :
                                     sorted[i].date = date}),
      transactions |-> sorted]

\* a call of getTransactionsByDate: what it returns and the transactions
\* array after it (filter makes a new array, which sort then orders)
callGetTransactionsByDate(date) ==
  [returned |-> getTransactionsByDate(date),
   transactions |-> rendered.transactions]

RECURSIVE groupsFrom(_, _, _)
\* the Map filled by sorted.forEach: a transaction is pushed onto the list
\* kept under its date, from index i
groupsFrom(sorted, groups, i) ==
  IF i > Len(sorted) THEN groups
  ELSE LET t == sorted[i]
           existing ==
             IF MapHas(groups, t.date) THEN MapGet(groups, t.date) ELSE <<>>
       IN groupsFrom(sorted, MapSet(groups, t.date, Append(existing, t)),
                     i + 1)

RECURSIVE sumAmounts(_, _, _)
\* txs.reduce((sum, t) => sum + t.amount, acc), from index i
sumAmounts(txs, acc, i) ==
  IF i > Len(txs) THEN acc
  ELSE sumAmounts(txs, Plus(acc, txs[i].amount), i + 1)

RECURSIVE toGroups(_, _)
\* entries.map(([date, txs]) => ({ date, transactions, total })), from
\* index i; displayDate, a label derived from date alone, is left out
toGroups(entries, i) ==
  IF i > Len(entries) THEN <<>>
  ELSE <<[date |-> entries[i][1], transactions |-> entries[i][2],
          total |-> sumAmounts(entries[i][2], Num(0), 1)]>>
       \o toGroups(entries, i + 1)

\* (a, b) => b.date.localeCompare(a.date), for every pair of entries of s:
\* dates of the form YYYY-MM-DD compare as their days do
byDateDesc(s) ==
  [i \in 1..Len(s), j \in 1..Len(s) |->
     IF s[j].date > s[i].date THEN 1
     ELSE IF s[j].date < s[i].date THEN -1 ELSE 0]

\* variant: the groups stay in the order the Map was filled
transactionGroupsUnsorted(transactions) ==
  LET sorted == Sort(transactions, byCreatedAtDesc(transactions))
  IN toGroups(groupsFrom(sorted, <<>>, 1), 1)

transactionGroupsOf(transactions) ==
  LET sorted == Sort(transactions, byCreatedAtDesc(transactions))
      mapped == toGroups(groupsFrom(sorted, <<>>, 1), 1)
  IN Sort(mapped, byDateDesc(mapped))

transactionGroups == transactionGroupsOf(rendered.transactions)

\* variant: the difference is cut off at zero
remainingClamped(monthlyBudget, spent) ==
  IF Lt0(Minus(monthlyBudget, MathAbs(spent))) THEN Num(0)
  ELSE Minus(monthlyBudget, MathAbs(spent))

\* BudgetHeader: monthlyBudget - Math.abs(totalSpent)
remainingOf(monthlyBudget, spent) == Minus(monthlyBudget, MathAbs(spent))

\* HomeScreen hands budget and totalSpent of the render to BudgetHeader
remaining == remainingOf(rendered.budget, totalSpent)

\* ------------------------------------------------------------------------
\* Specification
\* ------------------------------------------------------------------------

\* the store functions called directly, the screens staying closed
Next ==
  \/ \E category \in CategoryInputs, t \in Clock :
       AddCategory(category, t) /\ UNCHANGED screenVars
  \/ \E id \in CategoryIdInputs, updates \in CategoryUpdates :
       UpdateCategory(id, updates) /\ UNCHANGED screenVars
  \/ \E id \in CategoryIdInputs : DeleteCategory(id) /\ UNCHANGED screenVars
  \/ \E transaction \in TransactionInputs, t \in Clock :
       AddTransaction(transaction, t) /\ UNCHANGED screenVars
  \/ \E id \in TransactionIdInputs, updates \in TransactionUpdates :
       UpdateTransaction(id, updates) /\ UNCHANGED screenVars
  \/ \E id \in TransactionIdInputs :
       DeleteTransaction(id) /\ UNCHANGED screenVars
  \/ \E b \in BudgetInputs : SetBudget(b) /\ UNCHANGED screenVars
  \/ Render /\ UNCHANGED screenVars

Spec == Init /\ [][Next]_vars

\* The palette on its own: an index is drawn, getCategoryColor is applied.
InitPalette ==
  /\ state = InitialState
  /\ rendered = InitialState
  /\ now = T0
  /\ nextId = FirstFreeId
  /\ ops = 0
  /\ lastOp = [op |-> "init"]
  /\ pre = InitialState
  /\ colorLog = <<>>
  /\ report = ""
  /\ tally = NoCalls
  /\ InitScreens
  /\ probeIdx \in 0..MaxProbe
  /\ probeColor = ""

Probe ==
  /\ probeColor = ""
  /\ probeColor' = getCategoryColor(probeIdx)
  /\ UNCHANGED <<storeVars, screenVars, probeIdx>>

NextPalette == Probe

SpecPalette == InitPalette /\ [][NextPalette]_vars

\* ------------------------------------------------------------------------
\* AddCategoryModal
\* ------------------------------------------------------------------------

MaxNameLength == 30

\* what the user types as a name, and the circles of the picker pressed:
\* a color that is not the default and the color that is the first default
NameInputs == {Food, groceries, Lunch}

PickedColors == {CATEGORY_COLORS[1], getCategoryColor(Len(DEFAULT_CATEGORIES))}

\* HomeScreen.handleAddCategory: the button that opens the modal
handleAddCategory ==
  /\ submitted.opening < MaxOpenings
  /\ ~formShown.visible
  /\ ~form.visible
  /\ form' = [form EXCEPT !.visible = TRUE]
  /\ submitted' = [submitted EXCEPT !.opening = @ + 1]
  /\ UNCHANGED <<storeVars, formShown, editorVars, probeVars>>

\* the name field, not editable while isSubmitting is shown
handleNameChange(text) ==
  /\ formShown.visible
  /\ ~formShown.isSubmitting
  /\ form' = [form EXCEPT !.name = text, !.error = ""]
  /\ UNCHANGED <<storeVars, formShown, submitted, editorVars, probeVars>>

\* ColorPicker onSelectColor, disabled while isSubmitting is shown
setSelectedColor(color) ==
  /\ formShown.visible
  /\ ~formShown.isSubmitting
  /\ form' = [form EXCEPT !.selectedColor = color]
  /\ UNCHANGED <<storeVars, formShown, submitted, editorVars, probeVars>>

\* variant: the color of the picker is never handed over
submittedCategoryDefaultOnly ==
  [name |-> trim(formShown.name), icon |-> formShown.selectedIcon,
   color |-> ""]

\* the argument of addCategory in handleAdd; color "" is undefined
submittedCategory ==
  [name |-> trim(formShown.name), icon |-> formShown.selectedIcon,
   color |-> IF formShown.selectedColor = form.initialDefaultColor
             THEN "" ELSE formShown.selectedColor]

\* the Add button is pressed; it is disabled while the name shown is blank
\* or isSubmitting is shown
handleAdd(t) ==
  /\ formShown.visible
  /\ ~(trim(formShown.name) = <<>> \/ formShown.isSubmitting)
  /\ IF formShown.isSubmitting
     THEN UNCHANGED <<storeVars, form, submitted>>
     ELSE IF trim(formShown.name) = <<>>
     THEN /\ form' = [form EXCEPT !.error = "Name is required"]
          /\ UNCHANGED <<storeVars, submitted>>
     ELSE IF Len(trim(formShown.name)) > MaxNameLength
     THEN /\ form' =
               [form EXCEPT !.error = "Name must be 30 characters or less"]
          /\ UNCHANGED <<storeVars, submitted>>
     ELSE IF \E i \in 1..Len(rendered.categories) :
               toLowerCase(rendered.categories[i].name)
                 = toLowerCase(trim(formShown.name))
     THEN /\ form' = [form EXCEPT !.error = "Category name already exists"]
          /\ UNCHANGED <<storeVars, submitted>>
     ELSE /\ AddCategory(submittedCategory, t)
          /\ form' = [form EXCEPT !.isSubmitting = TRUE, !.visible = FALSE]
          /\ submitted' =
               [submitted EXCEPT
                  !.calls =
                    Append(@, [opening |-> submitted.opening,
                               id |-> nextId,
                               selectedColor |-> formShown.selectedColor,
                               default |-> form.initialDefaultColor])]
  /\ UNCHANGED <<formShown, editorVars, probeVars>>

\* the Cancel button, which does nothing while isSubmitting is shown
handleClose ==
  /\ formShown.visible
  /\ form' = IF formShown.isSubmitting THEN form
             ELSE [form EXCEPT !.visible = FALSE]
  /\ UNCHANGED <<storeVars, formShown, submitted, editorVars, probeVars>>

\* the form after the reset effect of AddCategoryModal, which runs after a
\* commit in which visible or nextColorIndex differs from the commit before
formAfterEffects ==
  IF /\ form.visible
     /\ \/ form.visible # formShown.visible
        \/ state.nextColorIndex # rendered.nextColorIndex
  THEN [form EXCEPT
          !.initialDefaultColor = getCategoryColor(state.nextColorIndex),
          !.name = <<>>,
          !.selectedIcon = DEFAULT_ICON,
          !.selectedColor = getCategoryColor(state.nextColorIndex),
          !.error = "",
          !.isSubmitting = FALSE]
  ELSE form

\* ------------------------------------------------------------------------
\* TransactionModal
\* ------------------------------------------------------------------------

Digits == <<"0", "1", "2", "3", "4", "5", "6", "7", "8", "9">>

digitValue(c) == (CHOOSE k \in 1..Len(Digits) : Digits[k] = c) - 1

RECURSIVE digitsOf(_)
\* the decimal digits of a natural number
digitsOf(n) ==
  IF n < 10 THEN <<Digits[n + 1]>>
  ELSE Append(digitsOf(n \div 10), Digits[(n % 10) + 1])

\* Number.prototype.toString of an amount that is not negative: no
\* fraction is written for whole amounts and no trailing zero
numberToString(a) ==
  LET whole == digitsOf(a.v \div 100)
      cents == a.v % 100
  IN IF cents = 0 THEN whole
     ELSE IF cents % 10 = 0 THEN whole \o <<".", Digits[(cents \div 10) + 1]>>
     ELSE whole \o <<".", Digits[(cents \div 10) + 1],
                     Digits[(cents % 10) + 1]>>

RECURSIVE valueOf(_, _)
\* the number written by the digits s, following acc
valueOf(s, acc) ==
  IF s = <<>> THEN acc
  ELSE valueOf(Tail(s), 10 * acc + digitValue(Head(s)))

\* parseFloat of digits with at most one "." and at most two digits
\* behind it: NaN when there is no digit at all
parseFloat(input) ==
  LET dots == {i \in 1..Len(input) : input[i] = "."}
      cut == IF dots = {} THEN Len(input) + 1
             ELSE CHOOSE i \in dots : \A j \in dots : i <= j
      whole == SubSeq(input, 1, cut - 1)
      behind == SubSeq(input, cut + 1, Len(input))
  IN IF whole = <<>> /\ behind = <<>> THEN NaN
     ELSE Num(100 * valueOf(whole, 0)
              + (IF Len(behind) = 0 THEN 0
                 ELSE IF Len(behind) = 1 THEN 10 * digitValue(behind[1])
                 ELSE 10 * digitValue(behind[1]) + digitValue(behind[2])))

Null == [kind |-> "null", v |-> 0]

parseAmount(input) ==
  IF input \in {<<>>, <<".">>, <<"-">>, <<"-", ".">>} THEN Null
  ELSE IF ~IsFinite(parseFloat(input)) THEN Null
  ELSE parseFloat(input)

\* the rows pressed to edit, the titles typed, the keys of the pad pressed
\* and the calendar days on which Save is pressed
EditIds == {16, 21}

TitleInputs == {Lunch, Blank}

NumpadKeys == {"0", "1", ".", "backspace"}

SaveDays == {Today, Today + 1}

\* the keys pressed while a transaction is edited
EditorKeys == {"1", "backspace"}

\* HomeScreen.handleEditTransaction: a row of the list is pressed
handleEditTransaction(id) ==
  /\ ~editorShown.visible
  /\ ~editor.visible
  /\ \E i \in 1..Len(rendered.transactions) : rendered.transactions[i].id = id
  /\ editor' = [editor EXCEPT !.editTransactionId = id, !.visible = TRUE]
  /\ UNCHANGED <<storeVars, formVars, editorShown, probeVars>>

\* HomeScreen.handleAddNew: the + button
handleAddNew ==
  /\ ~editorShown.visible
  /\ ~editor.visible
  /\ editor' = [editor EXCEPT !.editTransactionId = 0, !.visible = TRUE]
  /\ UNCHANGED <<storeVars, formVars, editorShown, probeVars>>

\* HomeScreen.handleCloseModal, the onClose of the modal
handleCloseModal ==
  /\ editorShown.visible
  /\ editor' = [editor EXCEPT !.visible = FALSE, !.editTransactionId = 0]
  /\ UNCHANGED <<storeVars, formVars, editorShown, probeVars>>

setTitle(text) ==
  /\ editorShown.visible
  /\ editor' = [editor EXCEPT !.title = text]
  /\ UNCHANGED <<storeVars, formVars, editorShown, probeVars>>

\* the updater of handleNumpadPress: prev.split('.')[1] is what follows the
\* first "."
amountAfterKey(prev, value) ==
  IF value = "backspace" THEN SubSeq(prev, 1, Len(prev) - 1)
  ELSE IF value = "."
  THEN IF \E i \in 1..Len(prev) : prev[i] = "." THEN prev
       ELSE Append(prev, value)
  ELSE IF \E i \in 1..Len(prev) :
            /\ prev[i] = "."
            /\ \A j \in 1..(i - 1) : prev[j] # "."
            /\ LET behind == SubSeq(prev, i + 1, Len(prev))
                   second == {j \in 1..Len(behind) : behind[j] = "."}
                   part == IF second = {} THEN behind
                           ELSE SubSeq(behind, 1,
                                       (CHOOSE j \in second :
                                          \A k \in second : j <= k) - 1)
               IN Len(part) >= 2
  THEN prev
  ELSE IF Len(prev) >= 10 THEN prev
  ELSE Append(prev, value)

handleNumpadPress(value) ==
  /\ editorShown.visible
  /\ editor' = [editor EXCEPT !.amountInput = amountAfterKey(@, value)]
  /\ UNCHANGED <<storeVars, formVars, editorShown, probeVars>>

\* Save is pressed on calendar day `day` at clock value t
handleSave(day, t) ==
  LET amount == parseAmount(editorShown.amountInput)
      transactionData ==
        [title |-> trim(editorShown.title),
         amount |-> Minus(Num(0), MathAbs(amount)),
         categoryId |-> editorShown.selectedCategoryId,
         date |-> day,
         note |-> editorShown.note]
  IN /\ editorShown.visible
     /\ IF \/ amount = Null
           \/ amount.v <= 0
           \/ trim(editorShown.title) = <<>>
           \/ editorShown.selectedCategoryId = 0
        THEN UNCHANGED <<storeVars, editor>>
        ELSE /\ IF editorShown.editTransactionId # 0
                THEN UpdateTransaction(editorShown.editTransactionId,
                                       transactionData)
                ELSE AddTransaction(transactionData, t)
             /\ editor' =
                  [editor EXCEPT !.visible = FALSE, !.editTransactionId = 0]
     /\ UNCHANGED <<formVars, editorShown, probeVars>>

\* transactions.find(t => t.id === id): the transaction in a one-element
\* sequence, or the empty sequence
editingTransaction(transactions, id) ==
  LET found == {i \in 1..Len(transactions) : transactions[i].id = id}
  IN IF found = {} THEN <<>>
     ELSE <<transactions[CHOOSE i \in found : \A j \in found : i <= j]>>

\* the editor after the reset effect of TransactionModal, which runs after
\* a commit in which visible, the transaction edited or categories differs
\* from the commit before
editorAfterEffects ==
  LET editing == editingTransaction(state.transactions,
                                    editor.editTransactionId)
      before == editingTransaction(rendered.transactions,
                                   editorShown.editTransactionId)
  IN IF /\ editor.visible
        /\ \/ editor.visible # editorShown.visible
           \/ editing # before
           \/ state.categories # rendered.categories
     THEN IF editing # <<>>
          THEN [editor EXCEPT
                  !.amountInput = numberToString(MathAbs(editing[1].amount)),
                  !.title = editing[1].title,
                  !.selectedCategoryId = editing[1].categoryId,
                  !.note = editing[1].note]
          ELSE [editor EXCEPT
                  !.amountInput = <<>>,
                  !.title = <<>>,
                  !.selectedCategoryId =
                    IF state.categories = <<>> THEN 0
                    ELSE state.categories[1].id,
                  !.note = ""]
     ELSE editor

\* ------------------------------------------------------------------------
\* Rendering of the screens
\* ------------------------------------------------------------------------

\* React commits the provider, HomeScreen and both modals with the queued
\* updates applied, runs their effects and commits what the effects set
RenderScreens ==
  /\ rendered # state \/ formShown # form \/ editorShown # editor
  /\ rendered' = state
  /\ form' = formAfterEffects
  /\ formShown' = formAfterEffects
  /\ editor' = editorAfterEffects
  /\ editorShown' = editorAfterEffects
  /\ UNCHANGED <<state, now, nextId, ops, lastOp, pre, colorLog, report,
                 tally, submitted, probeVars>>

\* ------------------------------------------------------------------------
\* Specifications of the screens
\* ------------------------------------------------------------------------

NextModal ==
  \/ handleAddCategory
  \/ \E text \in NameInputs : handleNameChange(text)
  \/ \E color \in PickedColors : setSelectedColor(color)
  \/ \E t \in Clock : handleAdd(t)
  \/ handleClose
  \/ RenderScreens

SpecModal == Init /\ [][NextModal]_vars

NextEditor ==
  \/ \E id \in EditIds : handleEditTransaction(id)
  \/ handleAddNew
  \/ handleCloseModal
  \/ \E text \in TitleInputs : setTitle(text)
  \/ \E value \in EditorKeys :
       /\ Len(editor.amountInput) < MaxAmountLen
       /\ handleNumpadPress(value)
  \/ \E day \in SaveDays, t \in Clock : handleSave(day, t)
  \/ RenderScreens

SpecEditor == Init /\ [][NextEditor]_vars

\* The pad on its own: the modal is shown for a new transaction, nothing
\* has been keyed in, and keys are pressed.
InitNumpad ==
  /\ state = InitialState
  /\ rendered = InitialState
  /\ now = T0
  /\ nextId = FirstFreeId
  /\ ops = 0
  /\ lastOp = [op |-> "init"]
  /\ pre = InitialState
  /\ colorLog = <<>>
  /\ report = ""
  /\ tally = NoCalls
  /\ form = ClosedForm
  /\ formShown = ClosedForm
  /\ submitted = [opening |-> 0, calls |-> <<>>]
  /\ editor = [ClosedEditor EXCEPT
                 !.visible = TRUE,
                 !.selectedCategoryId = InitialState.categories[1].id]
  /\ editorShown = editor
  /\ probeIdx = 0
  /\ probeColor = ""

NextNumpad == \E value \in NumpadKeys : handleNumpadPress(value)

SpecNumpad == InitNumpad /\ [][NextNumpad]_vars

\* ------------------------------------------------------------------------
\* Properties
\* ------------------------------------------------------------------------

HasCategory(s, id) == \E i \in 1..Len(s.categories) : s.categories[i].id = id

TransactionsOf(s, id) ==
  {i \in 1..Len(s.transactions) : s.transactions[i].categoryId = id}

DatesOf(s) == {s.transactions[i].date : i \in 1..Len(s.transactions)}

\* C1: after deleteCategory(id) the store holds no category with that id
\* and no transaction of that category, and once that state is rendered
\* getTransactionsByDate returns no such transaction for any date.
CascadeDelete ==
  lastOp.op = "deleteCategory" =>
    /\ ~HasCategory(state, lastOp.id)
    /\ TransactionsOf(state, lastOp.id) = {}
    /\ rendered = state =>
         \A d \in DatesOf(pre) \cup DatesOf(rendered) :
           \A i \in 1..Len(getTransactionsByDate(d)) :
             getTransactionsByDate(d)[i].categoryId # lastOp.id

\* a category that had transactions was deleted and the result is rendered
CascadeDeleteWitness ==
  /\ lastOp.op = "deleteCategory"
  /\ HasCategory(pre, lastOp.id)
  /\ TransactionsOf(pre, lastOp.id) # {}
  /\ rendered = state

NameUniqueness ==
  \A i, j \in 1..Len(state.categories) :
    i # j =>
      toLowerCase(state.categories[i].name)
        # toLowerCase(state.categories[j].name)

NameTaken(s, name) ==
  \E i \in 1..Len(s.categories) :
    toLowerCase(s.categories[i].name) = toLowerCase(trim(name))

\* C4: an addCategory whose trimmed name equals, ignoring case, the name of
\* a category of the store leaves the store as it was.
DuplicateAddRejected ==
  (lastOp.op = "addCategory" /\ NameTaken(pre, lastOp.category.name))
  => state = pre

\* C5: no two addCategory calls without a color use the same color index.
DistinctColorIndices ==
  \A i, j \in 1..Len(colorLog) : i # j => colorLog[i] # colorLog[j]

\* C6: nextColorIndex never decreases, in the store and from one render to
\* the next, and a deleteCategory call leaves it as it was.
ColorIndexMonotonic ==
  [][/\ state'.nextColorIndex >= state.nextColorIndex
     /\ rendered'.nextColorIndex >= rendered.nextColorIndex
     /\ (ops' # ops /\ lastOp'.op = "deleteCategory")
          => state'.nextColorIndex = state.nextColorIndex]_vars

\* a category was deleted and the counter exceeds the number of categories
ColorIndexMonotonicWitness ==
  /\ lastOp.op = "deleteCategory"
  /\ Len(state.categories) < Len(pre.categories)
  /\ state.nextColorIndex > Len(state.categories)
  /\ state.nextColorIndex > Len(DEFAULT_CATEGORIES)

\* C7: an addCategory without color stores getCategoryColor(k) for the
\* value k the counter has when the add is applied and leaves the counter
\* at k + 1; with a color it stores that color and leaves the counter.
AutoColorAtCommit ==
  lastOp.op = "addCategory" =>
    LET added == state.categories[Len(state.categories)]
    IN IF lastOp.category.color = ""
       THEN /\ added.color = getCategoryColor(pre.nextColorIndex)
            /\ state.nextColorIndex = pre.nextColorIndex + 1
       ELSE /\ added.color = lastOp.category.color
            /\ state.nextColorIndex = pre.nextColorIndex

\* C8: over one period the palette positions are pairwise distinct and
\* cover the palette, and getCategoryColor has period Len(CATEGORY_COLORS):
\* an index gets the color of probeIdx exactly when it is congruent to it.
PaletteFullPeriod ==
  LET N == Len(CATEGORY_COLORS)
  IN /\ \A i, j \in 0..(N - 1) : i # j => colorIndex(i) # colorIndex(j)
     /\ {colorIndex(i) : i \in 0..(N - 1)} = 0..(N - 1)
     /\ probeColor # "" =>
          /\ probeColor \in Range(CATEGORY_COLORS)
          /\ getCategoryColor(probeIdx + N) = probeColor
          /\ \A j \in 0..(MaxProbe + N) :
               (getCategoryColor(j) = probeColor) <=> (j % N = probeIdx % N)

\* the color of an index beyond the palette has been computed
PaletteFullPeriodWitness ==
  probeColor # "" /\ probeIdx >= Len(CATEGORY_COLORS)

RECURSIVE SumOver(_, _)
\* the sum of f over the finite set S of indices
SumOver(f, S) ==
  IF S = {} THEN 0
  ELSE LET x == CHOOSE y \in S : TRUE IN f[x] + SumOver(f, S \ {x})

ExpenseIdx(transactions) ==
  {i \in 1..Len(transactions) :
     transactions[i].amount.kind = "num" /\ transactions[i].amount.v < 0}

SpentBy(transactions, S) ==
  SumOver([i \in 1..Len(transactions) |-> 0 - transactions[i].amount.v], S)

\* C9: totalSpent is the sum of -amount over the transactions with a
\* negative amount, in the render and for the store's list alike; the
\* amounts -50, -30, +100 give 80.
TotalSpentIsExpenseSum ==
  /\ totalSpent = Num(SpentBy(rendered.transactions,
                              ExpenseIdx(rendered.transactions)))
  /\ totalSpentOf(state.transactions)
       = Num(SpentBy(state.transactions, ExpenseIdx(state.transactions)))
  /\ totalSpentOf(<<[amount |-> Num(-5000)], [amount |-> Num(-3000)],
                    [amount |-> Num(10000)]>>) = Num(8000)

\* the rendered list holds income as well as expenses
TotalSpentWitness ==
  /\ \E i \in 1..Len(rendered.transactions) :
       rendered.transactions[i].amount.v > 0
  /\ ExpenseIdx(rendered.transactions) # {}

CategoryPos(id) ==
  CHOOSE i \in 1..Len(rendered.categories) : rendered.categories[i].id = id

\* C10: categoryBreakdown has one entry for each rendered category with an
\* expense and no other entry; an entry's amount is the category's summed
\* expense; amounts do not increase along the list, and entries with equal
\* amounts keep the order of the categories list.
BreakdownCorrect ==
  \A bd \in {categoryBreakdown} :
    LET spenders ==
          {i \in 1..Len(rendered.categories) :
             TransactionsOf(rendered, rendered.categories[i].id)
               \cap ExpenseIdx(rendered.transactions) # {}}
    IN /\ Len(bd) = Cardinality(spenders)
       /\ {bd[k].id : k \in 1..Len(bd)}
            = {rendered.categories[i].id : i \in spenders}
       /\ \A k \in 1..Len(bd) :
            bd[k].amount
              = Num(SpentBy(rendered.transactions,
                            TransactionsOf(rendered, bd[k].id)
                              \cap ExpenseIdx(rendered.transactions)))
       /\ \A k \in 1..(Len(bd) - 1) :
            /\ bd[k].amount.v >= bd[k + 1].amount.v
            /\ bd[k].amount.v = bd[k + 1].amount.v
                 => CategoryPos(bd[k].id) < CategoryPos(bd[k + 1].id)

\* two entries tie and a rendered category without expenses is left out
BreakdownWitness ==
  \E bd \in {categoryBreakdown} :
    /\ \E k \in 1..(Len(bd) - 1) : bd[k].amount = bd[k + 1].amount
    /\ Len(bd) < Len(rendered.categories)

RECURSIVE Flatten(_, _)
\* the transactions of the groups g one after the other, from group k
Flatten(g, k) ==
  IF k > Len(g) THEN <<>> ELSE g[k].transactions \o Flatten(g, k + 1)

\* C11: at a render the date groups partition the transactions: no group is
\* empty, a group holds only transactions of its date, no two groups have
\* the same date, and the groups together hold every transaction once and
\* nothing else; the groups come newest date first; inside a group createdAt
\* does not increase; a group's total is the signed sum of its amounts.
\* (Every render shows the hook state of its moment, so the renders are the
\* states with rendered = state.)
GroupsByDate ==
  rendered = state =>
    \A g \in {transactionGroups} :
      /\ \A k \in 1..Len(g) :
           /\ g[k].transactions # <<>>
           /\ \A m \in 1..Len(g[k].transactions) :
                g[k].transactions[m].date = g[k].date
      /\ \A k \in 1..(Len(g) - 1) : g[k].date > g[k + 1].date
      /\ \A flat \in {Flatten(g, 1)} :
           /\ Len(flat) = Len(rendered.transactions)
           /\ \A i \in 1..Len(rendered.transactions) :
                \E p \in 1..Len(flat) :
                  /\ flat[p] = rendered.transactions[i]
                  /\ \A q \in 1..Len(flat) :
                       flat[q].id = rendered.transactions[i].id => q = p
      /\ \A k \in 1..Len(g) :
           /\ \A m \in 1..(Len(g[k].transactions) - 1) :
                g[k].transactions[m].createdAt
                  >= g[k].transactions[m + 1].createdAt
           /\ g[k].total
                = Num(SumOver([m \in 1..Len(g[k].transactions) |->
                                 g[k].transactions[m].amount.v],
                              1..Len(g[k].transactions)))

\* a transaction added last with yesterday's date is rendered, and a group
\* holds income next to expenses
GroupsByDateWitness ==
  /\ rendered = state
  /\ \E i \in 1..Len(rendered.transactions) :
       /\ rendered.transactions[i].id >= FirstFreeId
       /\ rendered.transactions[i].date < Today
  /\ \E g \in {transactionGroups} :
       \E k \in 1..Len(g) :
         /\ \E m \in 1..Len(g[k].transactions) :
              g[k].transactions[m].amount.v > 0
         /\ \E m \in 1..Len(g[k].transactions) :
              g[k].transactions[m].amount.v < 0

\* C12: addTransaction with an amount of NaN, Infinity or -Infinity is
\* refused: the amount is reported with console.error, no id is used up and
\* budget, categories, nextColorIndex and transactions stay as they were.
NonFiniteAddRejected ==
  (lastOp.op = "addTransaction" /\ ~IsFinite(lastOp.transaction.amount))
  => /\ report # ""
     /\ state = pre
     /\ nextId = lastOp.id

\* addTransaction was called with -Infinity
NonFiniteAddWitness ==
  lastOp.op = "addTransaction" /\ lastOp.transaction.amount = NegInfinity

MaxTitleLength == 100

\* C14: no transaction in the list has a title that is empty once trimmed or
\* longer than 100 characters.
TitlesValid ==
  \A i \in 1..Len(state.transactions) :
    /\ trim(state.transactions[i].title) # <<>>
    /\ Len(state.transactions[i].title) <= MaxTitleLength

\* C15: no category in the list has a name that is empty once trimmed or
\* longer than 30 characters, whether it came through addCategory or
\* updateCategory.
NamesValid ==
  \A i \in 1..Len(state.categories) :
    /\ trim(state.categories[i].name) # <<>>
    /\ Len(state.categories[i].name) <= MaxNameLength

\* the last call was an update or a delete that named an id not in its list
MissedId ==
  \/ /\ lastOp.op \in {"updateCategory", "deleteCategory"}
     /\ ~HasCategory(pre, lastOp.id)
  \/ /\ lastOp.op \in {"updateTransaction", "deleteTransaction"}
     /\ \A i \in 1..Len(pre.transactions) : pre.transactions[i].id # lastOp.id

\* C16: an update or a delete that names an id not in its list reports the
\* miss to the caller and leaves budget, categories, nextColorIndex and
\* transactions as they were.
NotFoundReported == MissedId => report # "" /\ state = pre

\* entity new is entity old with the fields of updates overwritten
Patched(old, new, updates) ==
  /\ DOMAIN new = DOMAIN old
  /\ new.id = old.id
  /\ new.createdAt = old.createdAt
  /\ \A f \in DOMAIN old \ DOMAIN updates : new[f] = old[f]

\* C17: updateCategory and updateTransaction keep the length and the order
\* of their list, leave every other entity and the other list as they were,
\* and keep id, createdAt and every field the patch does not name; with an
\* empty patch nothing changes.
PartialPatch ==
  /\ lastOp.op = "updateCategory" =>
       /\ Len(state.categories) = Len(pre.categories)
       /\ \A i \in 1..Len(pre.categories) :
            IF pre.categories[i].id = lastOp.id
            THEN Patched(pre.categories[i], state.categories[i],
                         lastOp.updates)
            ELSE state.categories[i] = pre.categories[i]
       /\ state = [pre EXCEPT !.categories = state.categories]
  /\ lastOp.op = "updateTransaction" =>
       /\ Len(state.transactions) = Len(pre.transactions)
       /\ \A i \in 1..Len(pre.transactions) :
            IF pre.transactions[i].id = lastOp.id
            THEN Patched(pre.transactions[i], state.transactions[i],
                         lastOp.updates)
            ELSE state.transactions[i] = pre.transactions[i]
       /\ state = [pre EXCEPT !.transactions = state.transactions]
  /\ (/\ lastOp.op \in {"updateCategory", "updateTransaction"}
      /\ lastOp.updates = NoPatch)
     => state = pre

\* a transaction that is there, and is not the last of the list, was patched
PartialPatchWitness ==
  /\ lastOp.op = "updateTransaction"
  /\ lastOp.updates # NoPatch
  /\ state # pre
  /\ \E i \in 1..(Len(pre.transactions) - 1) :
       pre.transactions[i].id = lastOp.id

\* C18: the categories list is as long as the seed plus the addCategory
\* calls minus the deleteCategory calls on an id that was there; the
\* transactions list is as long as the seed plus the adds that were taken
\* minus the transactions taken out by deleteTransaction on an id that was
\* there and by the cascade of deleteCategory; a refused add and a delete of
\* an id that is not there change neither length.
LengthAccounting ==
  /\ Len(state.categories)
       = Len(DEFAULT_CATEGORIES) + tally.categoryAdds - tally.categoryDeletes
  /\ Len(state.transactions)
       = Len(testTransactions) + tally.transactionAdds
           - tally.transactionRemovals
  /\ (\/ lastOp.op = "addTransaction" /\ report # ""
      \/ lastOp.op \in {"deleteCategory", "deleteTransaction"} /\ MissedId)
     => /\ Len(state.categories) = Len(pre.categories)
        /\ Len(state.transactions) = Len(pre.transactions)

\* C19: the remaining budget of a render is its budget minus its
\* totalSpent, below zero exactly when totalSpent is more than the budget.
RemainingIsBudgetMinusSpent ==
  /\ remaining = Minus(rendered.budget, totalSpent)
  /\ Lt0(remaining) <=> totalSpent.v > rendered.budget.v

\* a render in which more is spent than the budget allows
RemainingWitness ==
  /\ totalSpent.v > rendered.budget.v
  /\ totalSpent.v > 0
  /\ lastOp.op = "setBudget"

\* C20: setBudget(x) makes the budget x, zero and negative numbers
\* included, and leaves categories, transactions and nextColorIndex as they
\* were; totalSpent and categoryBreakdown of the next render are those of
\* the lists before the call.
SetBudgetFrame ==
  lastOp.op = "setBudget" =>
    /\ state = [pre EXCEPT !.budget = lastOp.budget]
    /\ state.budget = lastOp.budget
    /\ report = ""
    /\ rendered = state =>
         /\ totalSpent = totalSpentOf(pre.transactions)
         /\ categoryBreakdown
              = categoryBreakdownOf(pre.transactions, pre.categories)

\* a negative budget was set and rendered
SetBudgetWitness ==
  /\ lastOp.op = "setBudget"
  /\ Lt0(lastOp.budget)
  /\ rendered = state

\* C21: every transaction of the store refers to a category of the store.
NoOrphans ==
  \A i \in 1..Len(state.transactions) :
    HasCategory(state, state.transactions[i].categoryId)

\* C22: at a render, getTransactionsByDate(d) returns the transactions of
\* date d and no others, each once, with createdAt not increasing, and the
\* transactions list is afterwards what it was before the call.
ByDateExact ==
  rendered = state =>
    \A d \in DatesOf(rendered) \cup {Today + 1} :
      \A call \in {callGetTransactionsByDate(d)} :
        LET onDate == {i \in 1..Len(rendered.transactions) :
                         rendered.transactions[i].date = d}
        IN /\ call.transactions = rendered.transactions
           /\ Len(call.returned) = Cardinality(onDate)
           /\ \A i \in onDate :
                \E p \in 1..Len(call.returned) :
                  call.returned[p] = rendered.transactions[i]
           /\ \A p \in 1..Len(call.returned) : call.returned[p].date = d
           /\ \A p \in 1..(Len(call.returned) - 1) :
                call.returned[p].createdAt >= call.returned[p + 1].createdAt

\* a transaction added after start-up is rendered next to seeded ones of its
\* date, which were created before it and precede it in the list
ByDateExactWitness ==
  /\ rendered = state
  /\ \E i, j \in 1..Len(rendered.transactions) :
       /\ i < j
       /\ rendered.transactions[j].id >= FirstFreeId
       /\ rendered.transactions[i].date = rendered.transactions[j].date
       /\ rendered.transactions[i].createdAt
            < rendered.transactions[j].createdAt

\* C23: the categories list is in non-decreasing createdAt order.
CategoriesInCreatedAtOrder ==
  \A i \in 1..(Len(state.categories) - 1) :
    state.categories[i].createdAt <= state.categories[i + 1].createdAt

\* C24: addCategory and updateCategory leave transactions as they were;
\* addTransaction, updateTransaction and deleteTransaction leave categories
\* and nextColorIndex as they were; a call after which both lists differ
\* from what they were is a deleteCategory call.
CrossEntityFrame ==
  /\ lastOp.op \in {"addCategory", "updateCategory"} =>
       state.transactions = pre.transactions
  /\ lastOp.op \in {"addTransaction", "updateTransaction",
                    "deleteTransaction"} =>
       /\ state.categories = pre.categories
       /\ state.nextColorIndex = pre.nextColorIndex
  /\ (/\ state.categories # pre.categories
      /\ state.transactions # pre.transactions)
     => lastOp.op = "deleteCategory"

\* the only transaction of a category was deleted and the category is kept
CrossEntityFrameWitness ==
  /\ lastOp.op = "deleteTransaction"
  /\ state.transactions # pre.transactions
  /\ \E c \in 1..Len(state.categories) :
       /\ TransactionsOf(pre, state.categories[c].id) # {}
       /\ TransactionsOf(state, state.categories[c].id) = {}

\* C27: as long as every store call was an addCategory without a color or
\* a deleteCategory of a category that was there, the categories of the
\* store have pairwise distinct colors.
AutoColorsDistinct ==
  ops = Len(colorLog) + tally.categoryDeletes =>
    \A i, j \in 1..Len(state.categories) :
      i # j => state.categories[i].color # state.categories[j].color

\* C28: at a render the amounts of the categoryBreakdown entries add up to
\* totalSpent, each of them is above zero, and totalSpent is not negative.
AggregatesAgree ==
  \A bd \in {categoryBreakdown} :
    /\ totalSpent
         = Num(SumOver([k \in 1..Len(bd) |-> bd[k].amount.v], 1..Len(bd)))
    /\ \A k \in 1..Len(bd) : bd[k].amount.v > 0
    /\ totalSpent.v >= 0

\* C25: within one opening of AddCategoryModal handleAdd calls addCategory
\* at most once, and whenever the modal is shown isSubmitting is false.
AddOncePerOpening ==
  /\ \A j, k \in 1..Len(submitted.calls) :
       j # k => submitted.calls[j].opening # submitted.calls[k].opening
  /\ formShown.visible => ~formShown.isSubmitting

\* C26: amountInput, keyed in from the empty string, has at most one ".",
\* at most two digits behind it and at most 10 characters.
NumpadInvariant ==
  /\ Cardinality({i \in 1..Len(editor.amountInput) :
                    editor.amountInput[i] = "."}) <= 1
  /\ \A i \in 1..Len(editor.amountInput) :
       editor.amountInput[i] = "." => Len(editor.amountInput) - i <= 2
  /\ Len(editor.amountInput) <= 10

\* C29: an edit saved through handleSave leaves the list as long as it was
\* and every transaction at its place with its id, createdAt and date.
EditKeepsDate ==
  lastOp.op = "updateTransaction" =>
    /\ Len(state.transactions) = Len(pre.transactions)
    /\ \A i \in 1..Len(pre.transactions) :
         /\ state.transactions[i].id = pre.transactions[i].id
         /\ state.transactions[i].createdAt = pre.transactions[i].createdAt
         /\ state.transactions[i].date = pre.transactions[i].date

\* C30: a category added by handleAdd is stored with the selectedColor
\* shown when Add was pressed, and the addCategory call of handleAdd moves
\* nextColorIndex up by one if that color was the default captured when the
\* modal opened and leaves it alone otherwise.
ModalColorStored ==
  /\ \A k \in 1..Len(submitted.calls) :
       \A i \in 1..Len(state.categories) :
         state.categories[i].id = submitted.calls[k].id
           => state.categories[i].color = submitted.calls[k].selectedColor
  /\ lastOp.op = "addCategory" =>
       LET call == submitted.calls[Len(submitted.calls)]
       IN /\ call.id = lastOp.id
          /\ state.nextColorIndex
               = pre.nextColorIndex
                   + (IF call.selectedColor = call.default THEN 1 ELSE 0)

\* one category was added with the default color and one with a color of
\* the picker that was not the default
ModalColorWitness ==
  /\ \E k \in 1..Len(submitted.calls) :
       submitted.calls[k].selectedColor = submitted.calls[k].default
  /\ \E k \in 1..Len(submitted.calls) :
       /\ submitted.calls[k].selectedColor # submitted.calls[k].default
       /\ \E i \in 1..Len(state.categories) :
            state.categories[i].id = submitted.calls[k].id

====
